---- MODULE Spec2Model ----
(***************************************************************************)
(* A model of spdy3.ResponseStream (src/spdy3/response_stream.go): the     *)
(* server-side SPDY/3 stream that runs an HTTP handler and turns its       *)
(* writes into outbound frames.                                            *)
(*                                                                         *)
(* Two tasks act on one stream.  The worker task executes Run and, inside  *)
(* it, the handler's calls to Header, WriteHeader and Write; none of these *)
(* takes the stream mutex, so the worker is modelled step by step (pc).    *)
(* The connection task calls ReceiveFrame and Close, which hold the mutex  *)
(* for their whole body and are therefore one step each.                   *)
(*                                                                         *)
(* common.StreamState, flowControl and common.UpdateHeader are used by the *)
(* stream but their code is not part of src/; they are modelled from       *)
(* sections 3, 4.1 and 4.2 of the specification.                           *)
(***************************************************************************)
EXTENDS Integers, Sequences, FiniteSets, TLC

(***************************************************************************)
(* Bounds of the model.                                                    *)
(***************************************************************************)
\* Number of events from outside the stream: the handler's calls on the
\* response writer, the connection's calls of ReceiveFrame and Close, and
\* the firing of the stop signal.
MaxCalls == 4
\* common.MAX_DATA_SIZE, scaled down so that a Write is chunked.
MAX_DATA_SIZE == 2
\* Longest payload of one handler Write: one byte more than a chunk.
MaxWrite == MAX_DATA_SIZE + 1
\* Initial send and receive window, scaled down so that a Write is buffered.
InitialWindow == MAX_DATA_SIZE

(***************************************************************************)
(* Program constants.                                                      *)
(***************************************************************************)
\* Largest value of the send window (2^31 - 1).
MAX_TRANSFER_WINDOW_SIZE == 2147483647
\* frame.StreamID of the SYN_STREAM that created the stream.
streamID == 1

\* Status codes the handler passes to WriteHeader.
Codes == {101, 200, 204, 304}
\* DeltaWindowSize values of inbound WINDOW_UPDATE frames.
Deltas == {1, MAX_TRANSFER_WINDOW_SIZE}

VARIABLES
    \* ---- fields of ResponseStream
    synFin,          \* the SYN_STREAM that created the stream carried FIN
    unidirectional,  \* s.unidirectional
    state,           \* *s.state
    wroteHeader,     \* s.wroteHeader
    responseCode,    \* s.responseCode
    header,          \* s.header: set of <<name, value>>
    requestBody,     \* s.requestBody: bytes appended so far
    refs,            \* which of the reference fields are non-nil
    ready,           \* TRUE once the channel s.ready is closed
    shutdownOnce,    \* TRUE once s.shutdownOnce has run
    mu,              \* the stream mutex: "unlocked" or its holder
    flow,            \* *s.flow
    \* ---- the connection
    sink,            \* frames sent on the output channel, in order
    stopFired,       \* TRUE once conn.stop is closed
    \* ---- the worker task
    pc,              \* position of Run
    data,            \* Write: bytes not yet handed to the flow controller
    written,         \* Write: the local variable written
    frame,           \* the frame built and about to be sent
    ret,             \* where WriteHeader returns to
    \* ---- history
    calls,           \* events from outside so far
    nextByte,        \* next fresh byte value the handler writes
    panicked,        \* "no", or where Run panicked
    finSeen,         \* the peer's FIN has been observed
    readyCloses,     \* number of close(s.ready) executed
    shutdownRuns,    \* number of executions of shutdown
    last             \* the last call from outside and its outcome

streamVars == <<synFin, unidirectional, state, wroteHeader, responseCode, header,
                requestBody, refs, ready, shutdownOnce, mu, flow>>
connVars == <<sink, stopFired>>
workerVars == <<pc, data, written, frame, ret>>
workerHist == <<nextByte, panicked>>
connHist == <<finSeen, readyCloses, shutdownRuns>>
histVars == <<calls, last, workerHist, connHist>>
vars == <<streamVars, connVars, workerVars, histVars>>

(***************************************************************************)
(* Frames.                                                                 *)
(***************************************************************************)
NoFrame == [type |-> "none", streamID |-> 0, fin |-> FALSE, header |-> {},
            data |-> <<>>, status |-> "", delta |-> 0]

SynReplyFrame(fin, h) == [NoFrame EXCEPT !.type = "SYN_REPLY",
                          !.streamID = streamID, !.fin = fin, !.header = h]
HeadersFrame(h) == [NoFrame EXCEPT !.type = "HEADERS", !.streamID = streamID,
                    !.header = h]
DataFrame(fin, d) == [NoFrame EXCEPT !.type = "DATA", !.streamID = streamID,
                      !.fin = fin, !.data = d]
RstStreamFrame(st) == [NoFrame EXCEPT !.type = "RST_STREAM",
                       !.streamID = streamID, !.status = st]
WindowUpdateFrame(d) == [NoFrame EXCEPT !.type = "WINDOW_UPDATE",
                         !.streamID = streamID, !.delta = d]

\* The frames the connection may hand to ReceiveFrame; the DATA frame with
\* FIN carries a byte of its own, so that the request body tells which
\* DATA frames went into it.
InboundFrames ==
    {[NoFrame EXCEPT !.type = "nil"]}
    \cup {DataFrame(FALSE, <<9>>), DataFrame(TRUE, <<8>>)}
    \cup {SynReplyFrame(f, {<<"x-in", "p">>}) : f \in BOOLEAN}
    \cup {HeadersFrame({<<"x-in", "p">>})}
    \cup {WindowUpdateFrame(d) : d \in Deltas}
    \cup {RstStreamFrame("CANCEL")}

(***************************************************************************)
(* http.Header.                                                            *)
(***************************************************************************)
\* http.Header.Set: replace the values of name by the single value.
HeaderSet(h, name, value) == {p \in h : p[1] # name} \cup {<<name, value>>}
\* common.UpdateHeader: merge the frame's header map into the pending one.
UpdateHeader(h, update) == h \cup update

(***************************************************************************)
(* common.StreamState.                                                     *)
(***************************************************************************)
OpenHere(s) == s \in {"OPEN", "HALF_CLOSED_REMOTE"}
OpenThere(s) == s \in {"OPEN", "HALF_CLOSED_LOCAL"}
ClosedHere(s) == s \in {"CLOSED", "HALF_CLOSED_LOCAL"}
ClosedThere(s) == s \in {"CLOSED", "HALF_CLOSED_REMOTE"}
Closed(s) == s = "CLOSED"
CloseHere(s) == CASE s = "OPEN" -> "HALF_CLOSED_LOCAL"
                  [] s = "HALF_CLOSED_REMOTE" -> "CLOSED"
                  [] OTHER -> s
CloseThere(s) == CASE s = "OPEN" -> "HALF_CLOSED_REMOTE"
                   [] s = "HALF_CLOSED_LOCAL" -> "CLOSED"
                   [] OTHER -> s
StateClose(s) == "CLOSED"

(***************************************************************************)
(* flowControl (sections 3 and 4.2 of the specification).  Each operation  *)
(* yields the new controller and the frames it puts on the output sink;    *)
(* the controller sends through its own handle on the output channel.      *)
(***************************************************************************)
Min(a, b) == IF a < b THEN a ELSE b

\* The bytes d as DATA frames of at most MAX_DATA_SIZE bytes each.
RECURSIVE Chunks(_)
Chunks(d) ==
    IF Len(d) = 0 THEN <<>>
    ELSE IF Len(d) <= MAX_DATA_SIZE THEN <<DataFrame(FALSE, d)>>
    ELSE <<DataFrame(FALSE, SubSeq(d, 1, MAX_DATA_SIZE))>>
         \o Chunks(SubSeq(d, MAX_DATA_SIZE + 1, Len(d)))

NewFlow == [send_window |-> InitialWindow, recv_window |-> InitialWindow,
            paused |-> FALSE, pending |-> <<>>, closed |-> FALSE]

\* Write(bytes): send what the window allows, buffer the rest, accept all.
flowWrite(f, bytes) ==
    LET fit == IF f.send_window < 0 THEN 0 ELSE Min(f.send_window, Len(bytes))
    IN  [flow |-> [f EXCEPT !.send_window = @ - fit,
                            !.pending = @ \o SubSeq(bytes, fit + 1, Len(bytes)),
                            !.paused = @ \/ fit < Len(bytes)],
         frames |-> Chunks(SubSeq(bytes, 1, fit)),
         n |-> Len(bytes)]

\* UpdateWindow(delta) fails when send_window + delta > 2^31 - 1.
flowOverflows(f, delta) ==
    f.send_window > 0 /\ delta > MAX_TRANSFER_WINDOW_SIZE - f.send_window

\* UpdateWindow(delta): add the credit and send pending bytes it permits.
flowUpdateWindow(f, delta) ==
    IF flowOverflows(f, delta)
    THEN [flow |-> f, frames |-> <<>>, err |-> TRUE]
    ELSE LET w == f.send_window + delta
             k == IF f.paused /\ w > 0 THEN Min(w, Len(f.pending)) ELSE 0
             rest == SubSeq(f.pending, k + 1, Len(f.pending))
         IN  [flow |-> [f EXCEPT !.send_window = w - k,
                                 !.pending = rest,
                                 !.paused = @ /\ rest # <<>>],
              frames |-> Chunks(SubSeq(f.pending, 1, k)),
              err |-> FALSE]

\* Flush(): send everything pending, whatever the window.
flowFlush(f) ==
    [flow |-> [f EXCEPT !.send_window = @ - Len(f.pending),
                        !.pending = <<>>,
                        !.paused = FALSE],
     frames |-> Chunks(f.pending)]

\* Receive(bytes): charge the receive window, replenish it once it has
\* drained by at least half the initial window.
flowReceive(f, bytes) ==
    LET r == f.recv_window - Len(bytes)
    IN  IF r < InitialWindow /\ 2 * (InitialWindow - r) >= InitialWindow
        THEN [flow |-> [f EXCEPT !.recv_window = InitialWindow],
              frames |-> <<WindowUpdateFrame(InitialWindow - r)>>]
        ELSE [flow |-> [f EXCEPT !.recv_window = r], frames |-> <<>>]

flowPaused(f) == f.paused
flowClose(f) == [f EXCEPT !.closed = TRUE]

(***************************************************************************)
(* NewResponseStream: the state after construction from a SYN_STREAM with  *)
(* any combination of the flags FIN and UNIDIRECTIONAL.                    *)
(***************************************************************************)
AllRefs == [output |-> TRUE, request |-> TRUE, handler |-> TRUE,
            header |-> TRUE, stop |-> TRUE, requestBody |-> TRUE]

\* A call from outside with its outcome: the error returned or the line
\* logged, and for Write the number of bytes it reports as written.
Outcome(op, n, err) == [op |-> op, n |-> n, err |-> err]

\* The constructor closing ready for FIN without s.state.CloseThere().
NewResponseStream_NoCloseThere(fin, uni) ==
    /\ synFin = fin
    /\ unidirectional = uni
    /\ state = "OPEN"
    /\ wroteHeader = FALSE
    /\ responseCode = 0
    /\ header = {}
    /\ requestBody = <<>>
    /\ refs = AllRefs
    /\ ready = fin
    /\ shutdownOnce = FALSE
    /\ mu = "unlocked"
    /\ flow = NewFlow
    /\ readyCloses = IF fin THEN 1 ELSE 0
    /\ finSeen = fin

NewResponseStream(fin, uni) ==
    /\ synFin = fin
    /\ unidirectional = uni
    /\ state = IF fin THEN CloseThere("OPEN") ELSE "OPEN"
    /\ wroteHeader = FALSE
    /\ responseCode = 0
    /\ header = {}
    /\ requestBody = <<>>
    /\ refs = AllRefs
    /\ ready = fin
    /\ shutdownOnce = FALSE
    /\ mu = "unlocked"
    /\ flow = NewFlow
    /\ readyCloses = IF fin THEN 1 ELSE 0
    /\ finSeen = fin

Init ==
    /\ \E fin \in BOOLEAN, uni \in BOOLEAN : NewResponseStream(fin, uni)
    /\ sink = <<>>
    /\ stopFired = FALSE
    /\ pc = "start"
    /\ data = <<>>
    /\ written = 0
    /\ frame = NoFrame
    /\ ret = "handler"
    /\ calls = 0
    /\ nextByte = 1
    /\ panicked = "no"
    /\ shutdownRuns = 0
    /\ last = Outcome("none", 0, "none")

(***************************************************************************)
(* The worker task: Run, and the handler's calls inside it.                *)
(***************************************************************************)
\* What no step of the worker touches.
WorkerFrame == UNCHANGED <<synFin, unidirectional, ready, shutdownOnce, mu, stopFired,
                           connHist>>

\* An event from outside happens only while the model's budget allows it.
CallAllowed == calls < MaxCalls

\* closed() without the receive from s.stop.
closed_IgnoresStop == ~refs.handler

\* closed(): the stream has been torn down or the stop signal has fired.
closed == ~refs.handler \/ (refs.stop /\ stopFired)

\* Run, "Make sure Request is prepared": a torn-down stream gets a fresh
\* body buffer and then panics on its nil request; Run's deferred function
\* recovers the panic and Run returns.
RunPrepare ==
    /\ pc = "start"
    /\ IF refs.requestBody
       THEN UNCHANGED <<requestBody, refs>>
       ELSE /\ requestBody' = <<>>
            /\ refs' = [refs EXCEPT !.requestBody = TRUE]
    /\ IF refs.request
       THEN pc' = "wait" /\ UNCHANGED panicked
       ELSE pc' = "done" /\ panicked' = "prepare"
    /\ UNCHANGED <<state, wroteHeader, responseCode, header, flow, sink,
                   data, written, frame, ret, calls, nextByte, last>>
    /\ WorkerFrame

\* Run without the receive from s.ready.
RunWait_NoWait ==
    /\ pc = "wait"
    /\ pc' = "call"
    /\ UNCHANGED <<state, wroteHeader, responseCode, header, requestBody,
                   refs, flow, sink, data, written, frame, ret, calls, last,
                   workerHist>>
    /\ WorkerFrame

\* Run, "<-s.ready": wait until the full request has been received.
RunWait ==
    /\ pc = "wait"
    /\ ready
    /\ pc' = "call"
    /\ UNCHANGED <<state, wroteHeader, responseCode, header, requestBody,
                   refs, flow, sink, data, written, frame, ret, calls, last, workerHist>>
    /\ WorkerFrame

\* Run, "s.handler.ServeHTTP(s, s.request)": a nil handler panics.
RunCall ==
    /\ pc = "call"
    /\ IF refs.handler
       THEN pc' = "handler" /\ UNCHANGED panicked
       ELSE pc' = "done" /\ panicked' = "call"
    /\ UNCHANGED <<state, wroteHeader, responseCode, header, requestBody,
                   refs, flow, sink, data, written, frame, ret, calls, nextByte,
                   last>>
    /\ WorkerFrame

\* The handler sets a response header through Header(); a nil map panics.
HandlerHeaderSet ==
    /\ pc = "handler"
    /\ CallAllowed
    /\ calls' = calls + 1
    /\ IF refs.header
       THEN /\ header' = HeaderSet(header, "x-h", "v")
            /\ last' = Outcome("Header", 0, "nil")
            /\ UNCHANGED <<pc, panicked>>
       ELSE /\ pc' = "done"
            /\ panicked' = "handler"
            /\ last' = Outcome("Header", 0, "panic")
            /\ UNCHANGED header
    /\ UNCHANGED <<state, wroteHeader, responseCode, requestBody, refs, flow,
                   sink, data, written, frame, ret, nextByte>>
    /\ WorkerFrame

\* The bodyless test without the 1xx codes.
IsBodyless_No1xx(code) == code = 204 \/ code = 304

\* WriteHeader, "These responses have no body".
IsBodyless(code) == code = 204 \/ code = 304 \/ code \div 100 = 1

\* WriteHeader without the check of s.wroteHeader.
WriteHeaderBody_NoOnce(code, back) ==
    IF unidirectional
    THEN /\ pc' = back
         /\ UNCHANGED <<state, wroteHeader, responseCode, header, frame, ret,
                        panicked>>
    ELSE /\ wroteHeader' = TRUE
         /\ responseCode' = code
         /\ IF refs.header
            THEN /\ frame' = SynReplyFrame(IsBodyless(code),
                        HeaderSet(HeaderSet(header, ":status", ToString(code)),
                                  ":version", "HTTP/1.1"))
                 /\ header' = {}
                 /\ state' = IF IsBodyless(code) THEN CloseHere(state)
                                                 ELSE state
                 /\ pc' = "wh_send"
                 /\ ret' = back
                 /\ UNCHANGED panicked
            ELSE /\ pc' = "done"
                 /\ panicked' = "handler"
                 /\ UNCHANGED <<state, header, frame, ret>>

\* WriteHeader up to, not including, the send of the SYN_REPLY; back is the
\* worker's position once WriteHeader has returned.
WriteHeaderBody(code, back) ==
    IF unidirectional \/ wroteHeader
    THEN /\ pc' = back
         /\ UNCHANGED <<state, wroteHeader, responseCode, header, frame, ret,
                        panicked>>
    ELSE /\ wroteHeader' = TRUE
         /\ responseCode' = code
         /\ IF refs.header
            THEN /\ frame' = SynReplyFrame(IsBodyless(code),
                        HeaderSet(HeaderSet(header, ":status", ToString(code)),
                                  ":version", "HTTP/1.1"))
                 /\ header' = {}
                 /\ state' = IF IsBodyless(code) THEN CloseHere(state)
                                                 ELSE state
                 /\ pc' = "wh_send"
                 /\ ret' = back
                 /\ UNCHANGED panicked
            ELSE /\ pc' = "done"
                 /\ panicked' = "handler"
                 /\ UNCHANGED <<state, header, frame, ret>>

\* The handler calls WriteHeader(code).
HandlerWriteHeader ==
    /\ pc = "handler"
    /\ CallAllowed
    /\ calls' = calls + 1
    /\ \E code \in Codes : WriteHeaderBody(code, "handler")
    /\ last' = Outcome("WriteHeader", 0,
                       IF unidirectional THEN "logged unidirectional"
                       ELSE IF wroteHeader THEN "logged multiple calls"
                       ELSE IF refs.header THEN "nil" ELSE "panic")
    /\ UNCHANGED <<requestBody, refs, flow, sink, data, written, nextByte>>
    /\ WorkerFrame

\* WriteHeader returning without the send of the SYN_REPLY.
WriteHeaderSend_NoSend ==
    /\ pc = "wh_send"
    /\ frame' = NoFrame
    /\ pc' = ret
    /\ UNCHANGED <<state, wroteHeader, responseCode, header, requestBody,
                   refs, flow, sink, data, written, ret, calls, last,
                   workerHist>>
    /\ WorkerFrame

\* WriteHeader, "s.output <- synReply"; a send on a nil channel never
\* completes.
WriteHeaderSend ==
    /\ pc = "wh_send"
    /\ refs.output
    /\ sink' = Append(sink, frame)
    /\ frame' = NoFrame
    /\ pc' = ret
    /\ UNCHANGED <<state, wroteHeader, responseCode, header, requestBody,
                   refs, flow, data, written, ret, calls, last, workerHist>>
    /\ WorkerFrame

\* The handler calls Write with n fresh bytes: the two checks and the copy.
\* (What flowControl.Write does with an empty payload is not specified, so
\* the handler writes at least one byte.)
HandlerWrite ==
    /\ pc = "handler"
    /\ CallAllowed
    /\ calls' = calls + 1
    /\ \E n \in 1..MaxWrite :
         IF unidirectional
         THEN /\ last' = Outcome("Write", 0, "unidirectional")
              /\ UNCHANGED <<pc, data, written, nextByte>>
         ELSE IF closed \/ ClosedHere(state)
         THEN /\ last' = Outcome("Write", 0, "already closed")
              /\ UNCHANGED <<pc, data, written, nextByte>>
         ELSE /\ data' = [i \in 1..n |-> nextByte + i - 1]
              /\ nextByte' = nextByte + n
              /\ written' = 0
              /\ pc' = "w_top"
              /\ last' = Outcome("Write", 0, "running")
    /\ UNCHANGED <<state, wroteHeader, responseCode, header, requestBody,
                   refs, flow, sink, frame, ret, panicked>>
    /\ WorkerFrame

\* Write without the default WriteHeader(http.StatusOK).
WriteDefaultHeader_NoDefault ==
    /\ pc = "w_top"
    /\ pc' = "w_hdr"
    /\ UNCHANGED <<state, wroteHeader, responseCode, header, frame, ret,
                   panicked>>
    /\ UNCHANGED <<requestBody, refs, flow, sink, data, written, calls,
                   nextByte, last>>
    /\ WorkerFrame

\* Write, "Default to 200 response".
WriteDefaultHeader ==
    /\ pc = "w_top"
    /\ IF ~wroteHeader
       THEN WriteHeaderBody(200, "w_hdr")
       ELSE /\ pc' = "w_hdr"
            /\ UNCHANGED <<state, wroteHeader, responseCode, header, frame,
                           ret, panicked>>
    /\ UNCHANGED <<requestBody, refs, flow, sink, data, written, calls,
                   nextByte, last>>
    /\ WorkerFrame

\* writeHeader up to the send: drain the pending headers into a HEADERS
\* frame, or return when there is none.
WriteFlushHeaders ==
    /\ pc = "w_hdr"
    /\ IF ~refs.header \/ header = {} \/ unidirectional
       THEN pc' = "w_flow" /\ UNCHANGED <<header, frame>>
       ELSE /\ frame' = HeadersFrame(header)
            /\ header' = {}
            /\ pc' = "w_hdr_send"
    /\ UNCHANGED <<state, wroteHeader, responseCode, requestBody, refs, flow,
                   sink, data, written, ret, calls, last, workerHist>>
    /\ WorkerFrame

\* writeHeader, "s.output <- header", called from Write.
WriteHeadersSend ==
    /\ pc = "w_hdr_send"
    /\ refs.output
    /\ sink' = Append(sink, frame)
    /\ frame' = NoFrame
    /\ pc' = "w_flow"
    /\ UNCHANGED <<state, wroteHeader, responseCode, header, requestBody,
                   refs, flow, data, written, ret, calls, last, workerHist>>
    /\ WorkerFrame

\* Write's chunk loop returning the last flow.Write's count alone.
WriteFlow_LastCount ==
    /\ pc = "w_flow"
    /\ IF Len(data) > MAX_DATA_SIZE
       THEN LET r == flowWrite(flow, SubSeq(data, 1, MAX_DATA_SIZE))
            IN  /\ flow' = r.flow
                /\ sink' = sink \o r.frames
                /\ written' = written + r.n
                /\ data' = SubSeq(data, MAX_DATA_SIZE + 1, Len(data))
                /\ UNCHANGED <<pc, last>>
       ELSE LET r == flowWrite(flow, data)
            IN  /\ flow' = r.flow
                /\ sink' = sink \o r.frames
                /\ written' = r.n
                /\ data' = <<>>
                /\ last' = Outcome("Write", r.n, "nil")
                /\ pc' = "handler"
    /\ UNCHANGED <<state, wroteHeader, responseCode, header, requestBody,
                   refs, frame, ret, calls, nextByte, panicked>>
    /\ WorkerFrame

\* Write, one call of s.flow.Write: a chunk of MAX_DATA_SIZE bytes while
\* more than that is left, then the rest, after which Write returns.  The
\* specification gives flowControl.Write no failure, so err is always nil.
WriteFlow ==
    /\ pc = "w_flow"
    /\ IF Len(data) > MAX_DATA_SIZE
       THEN LET r == flowWrite(flow, SubSeq(data, 1, MAX_DATA_SIZE))
            IN  /\ flow' = r.flow
                /\ sink' = sink \o r.frames
                /\ written' = written + r.n
                /\ data' = SubSeq(data, MAX_DATA_SIZE + 1, Len(data))
                /\ UNCHANGED <<pc, last>>
       ELSE LET r == flowWrite(flow, data)
            IN  /\ flow' = r.flow
                /\ sink' = sink \o r.frames
                /\ written' = written + r.n
                /\ data' = <<>>
                /\ last' = Outcome("Write", written + r.n, "nil")
                /\ pc' = "handler"
    /\ UNCHANGED <<state, wroteHeader, responseCode, header, requestBody,
                   refs, frame, ret, calls, nextByte, panicked>>
    /\ WorkerFrame

\* The handler panics; Run's deferred function recovers and Run returns.
HandlerPanic ==
    /\ pc = "handler"
    /\ pc' = "done"
    /\ panicked' = "handler"
    /\ UNCHANGED <<state, wroteHeader, responseCode, header, requestBody,
                   refs, flow, sink, data, written, frame, ret, calls, nextByte,
                   last>>
    /\ WorkerFrame

\* The handler returns.
HandlerReturn ==
    /\ pc = "handler"
    /\ pc' = "post"
    /\ UNCHANGED <<state, wroteHeader, responseCode, header, requestBody,
                   refs, flow, sink, data, written, frame, ret, calls, last, workerHist>>
    /\ WorkerFrame

\* Run, "Make sure any queued data has been sent".
RunFlush ==
    /\ pc = "post"
    /\ IF flowPaused(flow) /\ OpenThere(state)
       THEN LET r == flowFlush(flow)
            IN  flow' = r.flow /\ sink' = sink \o r.frames
       ELSE UNCHANGED <<flow, sink>>
    /\ pc' = "trail"
    /\ UNCHANGED <<state, wroteHeader, responseCode, header, requestBody,
                   refs, data, written, frame, ret, calls, last, workerHist>>
    /\ WorkerFrame

\* Run's trailing frame without the OpenHere test on the DATA branch.
RunTrailing_NoOpenHere ==
    /\ pc = "trail"
    /\ IF ~unidirectional /\ OpenHere(state) /\ ~wroteHeader
       THEN IF refs.header
            THEN /\ frame' = SynReplyFrame(TRUE,
                        HeaderSet(HeaderSet(header, ":status", "200"),
                                  ":version", "HTTP/1.1"))
                 /\ header' = {}
                 /\ pc' = "trail_send"
                 /\ UNCHANGED panicked
            ELSE /\ pc' = "done"
                 /\ panicked' = "trail"
                 /\ UNCHANGED <<header, frame>>
       ELSE IF ~unidirectional
       THEN /\ frame' = DataFrame(TRUE, <<>>)
            /\ pc' = "trail_send"
            /\ UNCHANGED <<header, panicked>>
       ELSE /\ pc' = "closehere"
            /\ UNCHANGED <<header, frame, panicked>>
    /\ UNCHANGED <<state, wroteHeader, responseCode, requestBody, refs, flow,
                   sink, data, written, ret, calls, nextByte, last>>
    /\ WorkerFrame

\* Run, the trailing frame up to its send: a SYN_REPLY with FIN when no
\* header was written, an empty DATA with FIN otherwise, nothing when the
\* stream is unidirectional or closed here.
RunTrailing ==
    /\ pc = "trail"
    /\ IF ~unidirectional /\ OpenHere(state) /\ ~wroteHeader
       THEN IF refs.header
            THEN /\ frame' = SynReplyFrame(TRUE,
                        HeaderSet(HeaderSet(header, ":status", "200"),
                                  ":version", "HTTP/1.1"))
                 /\ header' = {}
                 /\ pc' = "trail_send"
                 /\ UNCHANGED panicked
            ELSE /\ pc' = "done"
                 /\ panicked' = "trail"
                 /\ UNCHANGED <<header, frame>>
       ELSE IF ~unidirectional /\ OpenHere(state)
       THEN /\ frame' = DataFrame(TRUE, <<>>)
            /\ pc' = "trail_send"
            /\ UNCHANGED <<header, panicked>>
       ELSE /\ pc' = "closehere"
            /\ UNCHANGED <<header, frame, panicked>>
    /\ UNCHANGED <<state, wroteHeader, responseCode, requestBody, refs, flow,
                   sink, data, written, ret, calls, nextByte, last>>
    /\ WorkerFrame

\* Run, "s.output <- synReply" or "s.output <- data".
RunTrailSend ==
    /\ pc = "trail_send"
    /\ refs.output
    /\ sink' = Append(sink, frame)
    /\ frame' = NoFrame
    /\ pc' = "closehere"
    /\ UNCHANGED <<state, wroteHeader, responseCode, header, requestBody,
                   refs, flow, data, written, ret, calls, last, workerHist>>
    /\ WorkerFrame

\* Run returning without s.state.CloseHere().
RunCloseHere_NoClose ==
    /\ pc = "closehere"
    /\ pc' = "done"
    /\ UNCHANGED <<state, wroteHeader, responseCode, header, requestBody,
                   refs, flow, sink, data, written, frame, ret, calls, last,
                   workerHist>>
    /\ WorkerFrame

\* Run, "Clean up state": s.state.CloseHere(), then Run returns.
RunCloseHere ==
    /\ pc = "closehere"
    /\ state' = CloseHere(state)
    /\ pc' = "done"
    /\ UNCHANGED <<wroteHeader, responseCode, header, requestBody, refs,
                   flow, sink, data, written, frame, ret, calls, last, workerHist>>
    /\ WorkerFrame

(***************************************************************************)
(* The connection task: ReceiveFrame, Close and the stop signal.           *)
(***************************************************************************)
\* What no step of the connection task touches.
ConnFrame == UNCHANGED <<synFin, unidirectional, wroteHeader, responseCode, workerVars,
                         workerHist>>

\* The FIN handling without the select on s.ready: close(s.ready) always.
ReceiveFin_NoSelect(f) ==
    IF f.fin
    THEN /\ ready' = TRUE
         /\ readyCloses' = readyCloses + 1
         /\ state' = CloseThere(state)
         /\ finSeen' = TRUE
    ELSE UNCHANGED <<ready, readyCloses, state, finSeen>>

\* ReceiveFrame, the FIN of a DATA or SYN_REPLY frame: close ready unless
\* it is closed already, then CloseThere.
ReceiveFin(f) ==
    IF f.fin
    THEN /\ ready' = TRUE
         /\ readyCloses' = IF ready THEN readyCloses ELSE readyCloses + 1
         /\ state' = CloseThere(state)
         /\ finSeen' = TRUE
    ELSE UNCHANGED <<ready, readyCloses, state, finSeen>>

\* ReceiveFrame dropping the outcome of a successful s.flow.UpdateWindow.
ReceiveFrame_KeepsWindow(f) ==
    /\ mu = "unlocked"
    /\ CallAllowed
    /\ calls' = calls + 1
    /\ CASE f.type = "nil" ->
              /\ last' = Outcome("ReceiveFrame", 0, "err_nil")
              /\ UNCHANGED <<state, header, requestBody, ready, mu, flow,
                             sink, finSeen, readyCloses>>
         [] f.type = "DATA" ->
              IF refs.requestBody
              THEN LET r == flowReceive(flow, f.data)
                   IN  /\ requestBody' = requestBody \o f.data
                       /\ flow' = r.flow
                       /\ sink' = sink \o r.frames
                       /\ ReceiveFin(f)
                       /\ last' = Outcome("ReceiveFrame", 0, "nil")
                       /\ UNCHANGED <<header, mu>>
              ELSE /\ last' = Outcome("ReceiveFrame", 0, "panic")
                   /\ UNCHANGED <<state, header, requestBody, ready, mu, flow,
                                  sink, finSeen, readyCloses>>
         [] f.type \in {"SYN_REPLY", "HEADERS"} ->
              IF refs.header
              THEN /\ header' = UpdateHeader(header, f.header)
                   /\ ReceiveFin(f)
                   /\ last' = Outcome("ReceiveFrame", 0, "nil")
                   /\ UNCHANGED <<requestBody, mu, flow, sink>>
              ELSE /\ last' = Outcome("ReceiveFrame", 0, "panic")
                   /\ UNCHANGED <<state, header, requestBody, ready, mu, flow,
                                  sink, finSeen, readyCloses>>
         [] f.type = "WINDOW_UPDATE" ->
              LET r == flowUpdateWindow(flow, f.delta)
              IN  /\ IF ~r.err
                     THEN /\ last' = Outcome("ReceiveFrame", 0, "nil")
                          /\ UNCHANGED <<flow, sink, mu>>
                     ELSE IF refs.output
                     THEN /\ sink' = Append(sink,
                                 RstStreamFrame("FLOW_CONTROL_ERROR"))
                          /\ last' = Outcome("ReceiveFrame", 0, "err_flow")
                          /\ UNCHANGED <<flow, mu>>
                     ELSE /\ mu' = "ReceiveFrame"
                          /\ last' = Outcome("ReceiveFrame", 0, "blocked")
                          /\ UNCHANGED <<flow, sink>>
                  /\ UNCHANGED <<state, header, requestBody, ready, finSeen,
                                 readyCloses>>
         [] OTHER ->
              /\ last' = Outcome("ReceiveFrame", 0, "err_unknown")
              /\ UNCHANGED <<state, header, requestBody, ready, mu, flow,
                             sink, finSeen, readyCloses>>
    /\ UNCHANGED <<refs, shutdownOnce, stopFired, shutdownRuns>>
    /\ ConnFrame

\* ReceiveFrame(f), under the stream mutex.  A nil request body or header
\* map panics (the deferred Unlock releases the mutex); the send of the
\* RST_STREAM on a nil output channel never completes, mutex held.
ReceiveFrame(f) ==
    /\ mu = "unlocked"
    /\ CallAllowed
    /\ calls' = calls + 1
    /\ CASE f.type = "nil" ->
              /\ last' = Outcome("ReceiveFrame", 0, "err_nil")
              /\ UNCHANGED <<state, header, requestBody, ready, mu, flow,
                             sink, finSeen, readyCloses>>
         [] f.type = "DATA" ->
              IF refs.requestBody
              THEN LET r == flowReceive(flow, f.data)
                   IN  /\ requestBody' = requestBody \o f.data
                       /\ flow' = r.flow
                       /\ sink' = sink \o r.frames
                       /\ ReceiveFin(f)
                       /\ last' = Outcome("ReceiveFrame", 0, "nil")
                       /\ UNCHANGED <<header, mu>>
              ELSE /\ last' = Outcome("ReceiveFrame", 0, "panic")
                   /\ UNCHANGED <<state, header, requestBody, ready, mu, flow,
                                  sink, finSeen, readyCloses>>
         [] f.type \in {"SYN_REPLY", "HEADERS"} ->
              IF refs.header
              THEN /\ header' = UpdateHeader(header, f.header)
                   /\ ReceiveFin(f)
                   /\ last' = Outcome("ReceiveFrame", 0, "nil")
                   /\ UNCHANGED <<requestBody, mu, flow, sink>>
              ELSE /\ last' = Outcome("ReceiveFrame", 0, "panic")
                   /\ UNCHANGED <<state, header, requestBody, ready, mu, flow,
                                  sink, finSeen, readyCloses>>
         [] f.type = "WINDOW_UPDATE" ->
              LET r == flowUpdateWindow(flow, f.delta)
              IN  /\ IF ~r.err
                     THEN /\ flow' = r.flow
                          /\ sink' = sink \o r.frames
                          /\ last' = Outcome("ReceiveFrame", 0, "nil")
                          /\ UNCHANGED mu
                     ELSE IF refs.output
                     THEN /\ sink' = Append(sink,
                                 RstStreamFrame("FLOW_CONTROL_ERROR"))
                          /\ last' = Outcome("ReceiveFrame", 0, "err_flow")
                          /\ UNCHANGED <<flow, mu>>
                     ELSE /\ mu' = "ReceiveFrame"
                          /\ last' = Outcome("ReceiveFrame", 0, "blocked")
                          /\ UNCHANGED <<flow, sink>>
                  /\ UNCHANGED <<state, header, requestBody, ready, finSeen,
                                 readyCloses>>
         [] OTHER ->
              /\ last' = Outcome("ReceiveFrame", 0, "err_unknown")
              /\ UNCHANGED <<state, header, requestBody, ready, mu, flow,
                             sink, finSeen, readyCloses>>
    /\ UNCHANGED <<refs, shutdownOnce, stopFired, shutdownRuns>>
    /\ ConnFrame

Receive == \E f \in InboundFrames : ReceiveFrame(f)

\* shutdown: flush the pending headers as a HEADERS frame (writeHeader),
\* close the state and the flow controller, drop the references.
shutdown ==
    /\ IF ~refs.header \/ header = {} \/ unidirectional
       THEN UNCHANGED sink
       ELSE sink' = Append(sink, HeadersFrame(header))
    /\ header' = {}
    /\ state' = StateClose(state)
    /\ flow' = flowClose(flow)
    /\ requestBody' = <<>>
    /\ refs' = [output |-> FALSE, request |-> FALSE, handler |-> FALSE,
                header |-> FALSE, stop |-> FALSE, requestBody |-> FALSE]
    /\ shutdownRuns' = shutdownRuns + 1

\* Close calling s.shutdown directly, without s.shutdownOnce.
Close_NoOnce ==
    /\ mu = "unlocked"
    /\ CallAllowed
    /\ calls' = calls + 1
    /\ shutdownOnce' = TRUE
    /\ shutdown
    /\ last' = Outcome("Close", 0, "shutdown")
    /\ UNCHANGED <<ready, mu, stopFired, finSeen, readyCloses>>
    /\ ConnFrame

\* Close: s.shutdownOnce.Do(s.shutdown) under the stream mutex.
Close ==
    /\ mu = "unlocked"
    /\ CallAllowed
    /\ calls' = calls + 1
    /\ IF ~shutdownOnce
       THEN shutdownOnce' = TRUE /\ shutdown
       ELSE UNCHANGED <<shutdownOnce, sink, header, state, flow, requestBody,
                        refs, shutdownRuns>>
    /\ last' = Outcome("Close", 0, IF shutdownOnce THEN "once done"
                                                     ELSE "shutdown")
    /\ UNCHANGED <<ready, mu, stopFired, finSeen, readyCloses>>
    /\ ConnFrame

\* The connection closes its stop channel.
StopFires ==
    /\ ~stopFired
    /\ CallAllowed
    /\ calls' = calls + 1
    /\ stopFired' = TRUE
    /\ UNCHANGED <<streamVars, sink, workerVars, last, workerHist, connHist>>

Next ==
    \/ RunPrepare
    \/ RunWait
    \/ RunCall
    \/ HandlerHeaderSet
    \/ HandlerWriteHeader
    \/ WriteHeaderSend
    \/ HandlerWrite
    \/ WriteDefaultHeader
    \/ WriteFlushHeaders
    \/ WriteHeadersSend
    \/ WriteFlow
    \/ HandlerPanic
    \/ HandlerReturn
    \/ RunFlush
    \/ RunTrailing
    \/ RunTrailSend
    \/ RunCloseHere
    \/ Receive
    \/ Close
    \/ StopFires

Spec == Init /\ [][Next]_vars

(***************************************************************************)
(* Properties.                                                             *)
(***************************************************************************)
\* Positions of the frames on the sink that carry FIN, and their number.
FinFrames == {i \in 1..Len(sink) : sink[i].fin}
FinCount == Cardinality(FinFrames)
\* Number of SYN_REPLY frames on the sink.
SynReplyCount == Cardinality({i \in 1..Len(sink) : sink[i].type = "SYN_REPLY"})

\* C1: a stream that is not unidirectional puts exactly one frame with FIN
\* on the sink: never two, and not zero once Run has returned.  The
\* executions the claim lists are the handler's calls, inbound frames and
\* Run; streams that Close has torn down are left out.
C1_ExactlyOneFin ==
    (~unidirectional /\ ~shutdownOnce)
        => (FinCount <= 1 /\ (pc = "done" => FinCount = 1))

\* C2: every DATA frame on the sink has a SYN_REPLY before it.
C2_SynReplyPrecedesData ==
    \A i \in 1..Len(sink) :
        sink[i].type = "DATA"
            => \E j \in 1..(i - 1) : sink[j].type = "SYN_REPLY"

\* C2 witness: a Write has sent DATA, a WINDOW_UPDATE has flushed buffered
\* DATA and Run has sent the trailing DATA, after the SYN_REPLY.
C2_Witness ==
    /\ Len(sink) = 4
    /\ sink[1].type = "SYN_REPLY"
    /\ sink[2].type = "DATA"
    /\ sink[3].type = "DATA"
    /\ sink[4] = DataFrame(TRUE, <<>>)
    /\ flow.pending = <<>>
    /\ ~synFin

\* C3: the frame with FIN is the last frame the stream puts on the sink: no
\* SYN_REPLY, HEADERS or DATA frame follows it.  RST_STREAM and
\* WINDOW_UPDATE, which answer the peer's frames, are not counted.
C3_FinIsLast ==
    \A i \in 1..Len(sink) :
        sink[i].fin
            => \A j \in (i + 1)..Len(sink) :
                  sink[j].type \notin {"SYN_REPLY", "HEADERS", "DATA"}

\* C4: every call of Close leaves shutdown executed exactly once, and a
\* call after the first changes neither the stream nor the sink.
C4_CloseIdempotent ==
    [][Close => /\ shutdownRuns' = 1
                /\ shutdownOnce => UNCHANGED <<streamVars, connVars>>]_vars

\* C4 witness: a second Close has returned.
C4_Witness ==
    /\ last = Outcome("Close", 0, "once done")
    /\ shutdownRuns = 1

\* C5: Run is past the wait on ready, and so the handler is invoked, only
\* when the peer's FIN has been observed.
C5_HandlerAfterFin ==
    (pc \notin {"start", "wait"} /\ panicked # "prepare") => finSeen

\* C5 witness: the handler runs on a stream whose FIN came in a later frame.
C5_Witness ==
    /\ pc = "handler"
    /\ ~synFin
    /\ finSeen

\* C6: a Write on a stream that is unidirectional, stopped, torn down or
\* closed here returns 0 and an error, and changes nothing.
C6_WriteRejected ==
    [][(HandlerWrite /\ (unidirectional \/ stopFired \/ shutdownOnce
                         \/ ClosedHere(state)))
          => /\ last'.op = "Write"
             /\ last'.n = 0
             /\ last'.err \in {"unidirectional", "already closed"}
             /\ UNCHANGED <<sink, wroteHeader, header, state, flow, frame,
                            pc>>]_vars

\* C6 witness: a Write after WriteHeader(204) has been rejected.
C6_Witness ==
    /\ last = Outcome("Write", 0, "already closed")
    /\ responseCode = 204
    /\ ~shutdownOnce
    /\ ~stopFired

\* C7: the sink never holds two SYN_REPLY frames, and a WriteHeader after
\* the first changes nothing.
C7_WriteHeaderOnce ==
    [][/\ SynReplyCount' <= 1
       /\ (HandlerWriteHeader /\ wroteHeader)
             => UNCHANGED <<sink, frame, responseCode, header, state, pc>>]_vars

\* C7 witness: a second WriteHeader has been logged and ignored.
C7_Witness ==
    /\ last = Outcome("WriteHeader", 0, "logged multiple calls")
    /\ SynReplyCount = 1
    /\ pc = "done"

\* C8: the send window never exceeds 2^31 - 1, and a WINDOW_UPDATE that
\* would push it there leaves the flow controller as it is, puts exactly
\* one RST_STREAM with FLOW_CONTROL_ERROR on the sink and returns the error.
C8_OverflowRejected ==
    [][/\ flow'.send_window <= MAX_TRANSFER_WINDOW_SIZE
       /\ \A f \in InboundFrames :
             (ReceiveFrame(f) /\ f.type = "WINDOW_UPDATE"
                              /\ flowOverflows(flow, f.delta))
                => /\ flow' = flow
                   /\ sink' = Append(sink, RstStreamFrame("FLOW_CONTROL_ERROR"))
                   /\ last' = Outcome("ReceiveFrame", 0, "err_flow")]_vars

\* C9: once ReceiveFrame has answered an overflowing WINDOW_UPDATE with
\* RST_STREAM and the error, the stream's state is CLOSED.
C9_OverflowCloses ==
    last = Outcome("ReceiveFrame", 0, "err_flow") => state = "CLOSED"

\* C10: when the handler has panicked and Run has returned, the stream's
\* state is CLOSED.
C10_PanicCloses ==
    (pc = "done" /\ panicked = "handler") => state = "CLOSED"

\* The response frames on the sink: SYN_REPLY, HEADERS and DATA.
ResponseFrames ==
    SelectSeq(sink, LAMBDA f : f.type \in {"SYN_REPLY", "HEADERS", "DATA"})

\* The header block of a default reply: the pending headers with the
\* status and version replaced by 200 and HTTP/1.1.
DefaultReplyHeader(h) ==
    {e \in h : e[1] \notin {":status", ":version"}}
        \cup {<<":status", "200">>, <<":version", "HTTP/1.1">>}

\* C11: after the handler has returned, Run picks its trailing frame by
\* the table: none when the stream is unidirectional or closed here, a
\* SYN_REPLY with FIN, status 200, version HTTP/1.1 and the pending headers
\* when it is open here and no header was written, an empty DATA with FIN
\* when it is open here and the header was written; the frame picked is the
\* one frame Run puts on the sink; and a handler that wrote no header on a
\* bidirectional stream that was not torn down leaves exactly one response
\* frame in total, the SYN_REPLY with FIN.
C11_TrailingFrame ==
    [][/\ RunTrailing =>
            /\ sink' = sink
            /\ IF unidirectional \/ ~OpenHere(state)
               THEN pc' = "closehere" /\ frame' = frame
               ELSE /\ pc' = "trail_send"
                    /\ frame' = IF wroteHeader
                                THEN DataFrame(TRUE, <<>>)
                                ELSE SynReplyFrame(TRUE, DefaultReplyHeader(header))
       /\ RunTrailSend => sink' = Append(sink, frame) /\ pc' = "closehere"
       /\ RunCloseHere => sink' = sink /\ pc' = "done"
       /\ (/\ pc' = "done" /\ panicked' = "no"
           /\ ~unidirectional /\ ~wroteHeader' /\ ~shutdownOnce')
            => /\ Len(ResponseFrames') = 1
               /\ ResponseFrames'[1].type = "SYN_REPLY"
               /\ ResponseFrames'[1].fin
               /\ <<":status", "200">> \in ResponseFrames'[1].header
               /\ <<":version", "HTTP/1.1">> \in ResponseFrames'[1].header]_vars

\* C11 witness: Run has returned after a handler that wrote nothing, and
\* the SYN_REPLY with FIN is the only frame on the sink.
C11_Witness ==
    /\ pc = "done" /\ panicked = "no" /\ ~wroteHeader
    /\ Len(sink) = 1
    /\ sink[1].type = "SYN_REPLY" /\ sink[1].fin

\* The status codes of responses without a body: 204, 304 and 1xx.
NoBodyCode(code) == code \in {204, 304} \/ (code >= 100 /\ code < 200)

\* C12: the first WriteHeader(code) on a bidirectional stream builds a
\* SYN_REPLY that carries FIN, and closes the local side, exactly when code
\* is 204, 304 or 1xx; its send puts that frame on the sink; after such a
\* code every Write is rejected and Run picks no trailing frame; for any
\* other code the SYN_REPLY has no FIN and the state is unchanged.
C12_BodylessCodes ==
    [][/\ (HandlerWriteHeader /\ ~unidirectional /\ ~wroteHeader /\ refs.header)
            => /\ pc' = "wh_send"
               /\ frame'.type = "SYN_REPLY"
               /\ frame'.fin = NoBodyCode(responseCode')
               /\ <<":status", ToString(responseCode')>> \in frame'.header
               /\ state' = IF NoBodyCode(responseCode')
                           THEN CloseHere(state) ELSE state
       /\ WriteHeaderSend => sink' = Append(sink, frame) /\ state' = state
       /\ (HandlerWrite /\ wroteHeader /\ NoBodyCode(responseCode))
            => /\ last' = Outcome("Write", 0, "already closed")
               /\ pc' = pc /\ sink' = sink
       /\ (RunTrailing /\ wroteHeader /\ NoBodyCode(responseCode))
            => pc' = "closehere" /\ frame' = frame /\ sink' = sink]_vars

\* C12 witness: Run has returned after WriteHeader(101) and a rejected
\* Write, and the SYN_REPLY with FIN is the only response frame.
C12_Witness ==
    /\ pc = "done" /\ panicked = "no"
    /\ responseCode = 101
    /\ last = Outcome("Write", 0, "already closed")
    /\ Len(ResponseFrames) = 1
    /\ ResponseFrames[1].type = "SYN_REPLY" /\ ResponseFrames[1].fin

\* The simple GET has run to its end: the stream was created with FIN, the
\* handler's one call was a Write of a payload that fits in MAX_DATA_SIZE
\* and the initial send window, nothing else was called, Run has returned.
SimpleGetDone ==
    /\ synFin /\ ~unidirectional
    /\ pc = "done" /\ panicked = "no"
    /\ calls = 1
    /\ last.op = "Write" /\ last.err = "nil"
    /\ nextByte - 1 <= MAX_DATA_SIZE

\* The bytes the handler of the simple GET wrote.
SimpleGetPayload == [i \in 1..(nextByte - 1) |-> i]

\* The SYN_REPLY of a default reply with no pending headers.
SimpleGetReply ==
    SynReplyFrame(FALSE, {<<":status", "200">>, <<":version", "HTTP/1.1">>})

\* C13 as stated: the simple GET's outbound sequence is exactly two frames,
\* the SYN_REPLY without FIN and one DATA with the payload and FIN.
C13_SimpleGetTwoFrames ==
    SimpleGetDone
        => sink = <<SimpleGetReply, DataFrame(TRUE, SimpleGetPayload)>>

\* C13 amended: the simple GET's outbound sequence is exactly three frames,
\* the SYN_REPLY without FIN, one DATA with the payload and no FIN, and the
\* empty DATA with FIN that Run sends after the handler.
C13_SimpleGetThreeFrames ==
    SimpleGetDone
        => sink = <<SimpleGetReply, DataFrame(FALSE, SimpleGetPayload),
                    DataFrame(TRUE, <<>>)>>

\* C13 witness: a simple GET has run to its end with three frames out.
C13_Witness == SimpleGetDone /\ Len(sink) = 3 /\ sink[3].fin

\* The concatenation of the payloads of the DATA frames in s.
RECURSIVE Payloads(_)
Payloads(s) ==
    IF s = <<>> THEN <<>>
    ELSE (IF Head(s).type = "DATA" THEN Head(s).data ELSE <<>>)
         \o Payloads(Tail(s))

\* Every byte the handler's Writes have handed over so far, in order.
BytesWritten == [i \in 1..(nextByte - 1) |-> i]

\* The worker is inside an accepted Write.
InWrite ==
    \/ pc \in {"w_top", "w_hdr", "w_hdr_send", "w_flow"}
    \/ pc = "wh_send" /\ ret = "w_hdr"

\* C14: the payloads of the DATA frames on the sink, concatenated, are a
\* prefix of the bytes written, and what follows that prefix is exactly the
\* flow controller's pending buffer and then the rest of the Write in
\* progress; no DATA payload exceeds MAX_DATA_SIZE; and a Write that returns
\* without error reports its input length: the count starts at zero with
\* the whole input to go, every step of the Write keeps count plus rest,
\* and the return reports the count.
C14_DataIsPrefix ==
    [][/\ Payloads(sink') \o flow'.pending \o data' = BytesWritten'
       /\ Len(Payloads(sink')) <= nextByte' - 1
       /\ \A i \in 1..Len(sink') :
             sink'[i].type = "DATA" => Len(sink'[i].data) <= MAX_DATA_SIZE
       /\ (HandlerWrite /\ InWrite')
            => written' = 0 /\ Len(data') = nextByte' - nextByte
       /\ (InWrite /\ InWrite')
            => written' + Len(data') = written + Len(data)
       /\ (InWrite /\ pc' = "handler")
            => /\ last' = Outcome("Write", written + Len(data), "nil")
               /\ data' = <<>>]_vars

\* C14 witness: a Write longer than MAX_DATA_SIZE has returned its input
\* length, a WINDOW_UPDATE has released buffered bytes, and every byte
\* written is on the sink.
C14_Witness ==
    /\ last = Outcome("Write", MaxWrite, "nil")
    /\ nextByte > MaxWrite + 1
    /\ flow.pending = <<>>
    /\ Payloads(sink) = BytesWritten
    /\ \E i \in 1..Len(sink) : sink[i].type = "DATA" /\ sink[i].data # <<>>
                                 /\ sink[i].data[1] > InitialWindow

\* C15: a WINDOW_UPDATE accepted while the flow controller is open releases
\* the oldest pending bytes as DATA, as many as the credit (window plus
\* delta) permits and no more, leaves the rest pending in order, and empties
\* the buffer as soon as the credit covers it; paused is true exactly while
\* the pending buffer is non-empty, and bytes are pending only when no
\* window is left.
C15_Resume ==
    [][/\ (flow'.paused <=> flow'.pending # <<>>)
       /\ (flow'.pending # <<>> => flow'.send_window <= 0)
       /\ \A f \in InboundFrames :
             (/\ ReceiveFrame(f) /\ f.type = "WINDOW_UPDATE"
              /\ ~flow.closed /\ ~flowOverflows(flow, f.delta))
                => LET credit == flow.send_window + f.delta
                       k == Len(flow.pending) - Len(flow'.pending)
                   IN  /\ k >= 0 /\ k <= credit
                       /\ flow'.send_window = credit - k
                       /\ Payloads(sink') =
                              Payloads(sink) \o SubSeq(flow.pending, 1, k)
                       /\ flow'.pending =
                              SubSeq(flow.pending, k + 1, Len(flow.pending))
                       /\ credit >= Len(flow.pending)
                            => flow'.pending = <<>> /\ ~flow'.paused]_vars

\* C15 witness: two Writes left bytes pending, a first WINDOW_UPDATE
\* released part of them, a second one the rest, and all bytes written are
\* on the sink in order.
C15_Witness ==
    /\ nextByte - 1 = 2 * MaxWrite
    /\ last = Outcome("ReceiveFrame", 0, "nil")
    /\ ~flow.paused /\ flow.pending = <<>>
    /\ flow.send_window > InitialWindow
    /\ Payloads(sink) = BytesWritten

LockedStep == Receive \/ Close

\* C17: every step that changes the state, wroteHeader, the pending header
\* map or the request body is a step of a task holding the stream mutex,
\* taken while no other task holds it.
C17_MutationsUnderMutex ==
    [][<<state, wroteHeader, header, requestBody>>'
            # <<state, wroteHeader, header, requestBody>>
          => (mu = "unlocked" /\ LockedStep)]_vars

\* Run is past the handler's return and has not returned yet.
AfterHandler == pc \in {"post", "trail", "trail_send", "closehere"}

\* C18: once the handler has returned, Run always has a next step to take
\* until it returns, whatever Close and ReceiveFrame have done meanwhile; in
\* particular it is never left at a send with the output channel dropped.
C18_RunNeverBlocks ==
    AfterHandler
        => ENABLED (RunFlush \/ RunTrailing \/ RunTrailSend \/ RunCloseHere)

\* C19: ready is closed at most once and stays closed; while it is closed
\* the remote side is closed; and a DATA or SYN_REPLY with FIN processed
\* when ready is already closed does not close it again and applies
\* CloseThere(), which leaves the state as it was.
C19_ReadyClosedOnce ==
    [][/\ readyCloses' <= 1
       /\ (ready => ready')
       /\ (ready' => readyCloses' = 1 /\ ClosedThere(state'))
       /\ \A f \in InboundFrames :
             (ReceiveFrame(f) /\ f.fin /\ ready /\ last'.err = "nil")
                => /\ ready' /\ readyCloses' = readyCloses
                   /\ state' = CloseThere(state)
                   /\ state' = state]_vars

\* C19 witness: the constructor closed ready for a SYN_STREAM with FIN, and
\* two later DATA frames with FIN have been processed without closing it
\* again.
C19_Witness ==
    /\ synFin
    /\ ready /\ readyCloses = 1
    /\ requestBody = <<8, 8>>
    /\ last = Outcome("ReceiveFrame", 0, "nil")

\* C20: at Run's check after the handler the remote side is closed, so Run
\* does not call Flush; no step of Run after the handler's return touches
\* the flow controller or puts a byte of payload on the sink, so bytes
\* pending when the handler returns are still pending when Run closes the
\* stream.
C20_RunNeverFlushes ==
    [][/\ RunFlush => ~OpenThere(state)
       /\ (RunFlush \/ RunTrailing \/ RunTrailSend \/ RunCloseHere)
            => flow' = flow /\ Payloads(sink') = Payloads(sink)]_vars

\* C20 witness: Run has returned and closed the stream, no Close ran, and
\* bytes the handler wrote are still pending in the flow controller.
C20_Witness ==
    /\ pc = "done" /\ panicked = "no"
    /\ ~shutdownOnce
    /\ state = "CLOSED"
    /\ flow.paused /\ flow.pending # <<>>
====
